---- MODULE Spec2Model ----
(***************************************************************************)
(* Numeric kernels of Extras/Performance-solution.ipynb: the trapezoidal   *)
(* integrator and its Cython variants, apply_trapz, the euclidean and      *)
(* pairwise distances, gradient descent and the Monte-Carlo estimate of    *)
(* pi, and the notebook's code cells as the kernel runs them.              *)
(*                                                                         *)
(* Arithmetic.  Python floats and C doubles are modelled by exact          *)
(* rationals <<num, den>> (den > 0, lowest terms) where the kernel divides,*)
(* and by integers where it only adds and multiplies: every value the      *)
(* bounded inputs produce is far below 2^53, where double arithmetic on    *)
(* such values is exact.  The kernel runs one call at a time (the notebook *)
(* kernel is single-threaded), so each specification runs its calls in     *)
(* sequence.                                                               *)
(***************************************************************************)
EXTENDS Integers, Sequences, FiniteSets, TLC

VARIABLES
    \* trapz, trapz2, trapz3, trapz4 called on one row (a, b, N)
    a, b, N, ret,
    \* apply_trapz(col_a, col_b, col_n)
    col_a, col_b, col_n, res, ap_i, ap_pc,
    \* euclidean(x, y) and the loop of euclidean2(x, y)
    eu_x, eu_y, eu_vpc, eu_vret, eu_pc, eu_i, eu_diff, eu_ret,
    \* pairwise_py(X) and jit_pairwise_py(X): D, i and j of each
    pw_X, pw_D, pw_i, pw_j, pw_pc,
    \* the arguments X, y, gamma, n_iter and the draw of np.random.rand(P+1)
    gd_X, gd_y, gd_gamma, gd_n_iter, gd_w0,
    \* gradient_descent: w, the loop variable i, the last dE, updates done
    g1_w, g1_i, g1_dE, g1_pc, g1_updates,
    \* gradient_descent2: the memory nX and nXT share, w, tmp_d, tmp_dE, i
    g2_mem, g2_w, g2_tmp_d, g2_tmp_dE, g2_i, g2_pc, g2_updates,
    \* monte_carlo_pi_nojit / _jit: n_samples, the draws random() will return,
    \* and per function the draws consumed, acc, i, x, y and the return value
    mc_n, mc_tape, mc_log, mc_acc, mc_i, mc_x, mc_y, mc_pc, mc_ret,
    \* the notebook kernel: how the cells are being run, the names bound in
    \* the user namespace, the cell run last, how it ended, cells run so far
    nb_mode, nb_ns, nb_last, nb_out, nb_runs

trapzVars == <<a, b, N, ret>>
applyVars == <<col_a, col_b, col_n, res, ap_i, ap_pc>>
euclidVars == <<eu_x, eu_y, eu_vpc, eu_vret, eu_pc, eu_i, eu_diff, eu_ret>>
pairVars == <<pw_X, pw_D, pw_i, pw_j, pw_pc>>
gdArgs == <<gd_X, gd_y, gd_gamma, gd_n_iter, gd_w0>>
gd1Vars == <<g1_w, g1_i, g1_dE, g1_pc, g1_updates>>
gd2Vars == <<g2_mem, g2_w, g2_tmp_d, g2_tmp_dE, g2_i, g2_pc, g2_updates>>
gdVars == <<gdArgs, gd1Vars, gd2Vars>>
mcVars == <<mc_n, mc_tape, mc_log, mc_acc, mc_i, mc_x, mc_y, mc_pc, mc_ret>>
nbVars == <<nb_mode, nb_ns, nb_last, nb_out, nb_runs>>
vars == <<trapzVars, applyVars, euclidVars, pairVars, gdVars, mcVars, nbVars>>

---------------------------------------------------------------------------
(* Bounds of the model *)

\* a and b range over the halves k/2, -MaxHalf <= k <= MaxHalf
MaxHalf == 2
\* the panel count N ranges over 1..MaxPanels
MaxPanels == 3
\* apply_trapz is given columns of 0..MaxRows rows
MaxRows == 2
\* euclidean and euclidean2 are given arrays of 0..MaxLen elements
MaxLen == 3
\* pairwise_py is given M x N inputs, 1 <= M <= MaxM, 1 <= N <= MaxDim
MaxM == 2
MaxDim == 2
\* gradient descent is given n x P data, 1 <= n <= MaxObs, 1 <= P <= MaxFeat,
\* and n_iter in 0..MaxIter
MaxObs == 2
MaxFeat == 2
MaxIter == 2
\* monte_carlo_pi is called with n_samples in 1..MaxSamples
MaxSamples == 2

---------------------------------------------------------------------------
(* Exact rationals standing for floats *)

Abs(n) == IF n < 0 THEN -n ELSE n

RECURSIVE GCD(_, _)
GCD(m, n) == IF n = 0 THEN m ELSE GCD(n, m % n)

\* the rational p/q in lowest terms, q # 0
Rat(p, q) ==
    LET g == GCD(Abs(p), Abs(q))
        s == IF q < 0 THEN -1 ELSE 1
    IN  <<(s * p) \div g, (s * q) \div g>>

RInt(n) == <<n, 1>>
RAdd(x, y) == Rat(x[1] * y[2] + y[1] * x[2], x[2] * y[2])
RSub(x, y) == Rat(x[1] * y[2] - y[1] * x[2], x[2] * y[2])
RMul(x, y) == Rat(x[1] * y[1], x[2] * y[2])
RDiv(x, y) == Rat(x[1] * y[2], x[2] * y[1])

\* the float literal .5
Half == Rat(1, 2)

\* the content of a cell of np.empty that nothing has written yet: no number
Uninit == <<0, 0>>

---------------------------------------------------------------------------
(* The integrand and the four integrators *)

\* def f(x): return 2*x*x + 3*x + 1
f(x) == RAdd(RAdd(RMul(RMul(RInt(2), x), x), RMul(RInt(3), x)), RInt(1))

\* the loop of trapz: for i in range(N): x += h; sum_y += f(x)
RECURSIVE trapz_loop(_, _, _, _, _)
trapz_loop(i, n, x, sum_y, h) ==
    IF i >= n THEN sum_y
    ELSE LET x1 == RAdd(x, h)
         IN  trapz_loop(i + 1, n, x1, RAdd(sum_y, f(x1)), h)

\* def trapz(f, a, b, N), called with the integrand f
trapz(pa, pb, pN) ==
    LET h == RDiv(RSub(pb, pa), RInt(pN))
        sum_y == trapz_loop(0, pN, pa, RInt(0), h)
        sum_e == RAdd(sum_y, RMul(Half, RAdd(f(pa), f(pb))))
    IN  RMul(sum_e, h)

\* %%cython def f2(x)
f2(x) == RAdd(RAdd(RMul(RMul(RInt(2), x), x), RMul(RInt(3), x)), RInt(1))

RECURSIVE trapz2_loop(_, _, _, _, _)
trapz2_loop(i, n, x, sum_y, h) ==
    IF i >= n THEN sum_y
    ELSE LET x1 == RAdd(x, h)
         IN  trapz2_loop(i + 1, n, x1, RAdd(sum_y, f2(x1)), h)

\* %%cython def trapz2(f, a, b, N), called with f2
trapz2(pa, pb, pN) ==
    LET h == RDiv(RSub(pb, pa), RInt(pN))
        sum_y == trapz2_loop(0, pN, pa, RInt(0), h)
        sum_e == RAdd(sum_y, RMul(Half, RAdd(f2(pa), f2(pb))))
    IN  RMul(sum_e, h)

\* def f3(double x)
f3(x) == RAdd(RAdd(RMul(RMul(RInt(2), x), x), RMul(RInt(3), x)), RInt(1))

RECURSIVE trapz3_loop(_, _, _, _, _)
trapz3_loop(i, n, x, sum_y, h) ==
    IF i >= n THEN sum_y
    ELSE LET x1 == RAdd(x, h)
         IN  trapz3_loop(i + 1, n, x1, RAdd(sum_y, f3(x1)), h)

\* def trapz3(f, double a, double b, int N), called with f3
trapz3(pa, pb, pN) ==
    LET h == RDiv(RSub(pb, pa), RInt(pN))
        sum_y == trapz3_loop(0, pN, pa, RInt(0), h)
        sum_e == RAdd(sum_y, RMul(Half, RAdd(f3(pa), f3(pb))))
    IN  RMul(sum_e, h)

\* cdef inline double f4(double x)
f4(x) == RAdd(RAdd(RMul(RMul(RInt(2), x), x), RMul(RInt(3), x)), RInt(1))

RECURSIVE trapz4_loop(_, _, _, _, _)
trapz4_loop(i, n, x, sum_y, h) ==
    IF i >= n THEN sum_y
    ELSE LET x1 == RAdd(x, h)
         IN  trapz4_loop(i + 1, n, x1, RAdd(sum_y, f4(x1)), h)

\* a slip in the loop body: the integrand is sampled before x is advanced
trapz4_sample_first(pa, pb, pN) ==
    LET h == RDiv(RSub(pb, pa), RInt(pN))
        sum_y == trapz4_loop(0, pN, RSub(pa, h), RInt(0), h)
        sum_e == RAdd(sum_y, RMul(Half, RAdd(f4(pa), f4(pb))))
    IN  RMul(sum_e, h)

\* @cython.cdivision(True) cpdef double trapz4(double a, double b, int N)
trapz4(pa, pb, pN) ==
    LET h == RDiv(RSub(pb, pa), RInt(pN))
        sum_y == trapz4_loop(0, pN, pa, RInt(0), h)
        sum_e == RAdd(sum_y, RMul(Half, RAdd(f4(pa), f4(pb))))
    IN  RMul(sum_e, h)

---------------------------------------------------------------------------
(* The calls on one row *)

Variants == {"trapz", "trapz2", "trapz3", "trapz4"}
NoRet == <<0, 0>>
Halves == {Rat(k, 2) : k \in -MaxHalf..MaxHalf}

ApplyUnused ==
    /\ col_a = <<>> /\ col_b = <<>> /\ col_n = <<>>
    /\ res = <<>> /\ ap_i = 0 /\ ap_pc = "idle"

EuclidUnused ==
    /\ eu_x = <<>> /\ eu_y = <<>> /\ eu_vpc = "idle" /\ eu_vret = 0
    /\ eu_pc = "idle" /\ eu_i = 0 /\ eu_diff = 0 /\ eu_ret = 0

PairUnused ==
    /\ pw_X = <<>>
    /\ pw_D = [v \in {"py", "jit"} |-> <<>>]
    /\ pw_i = [v \in {"py", "jit"} |-> 0]
    /\ pw_j = [v \in {"py", "jit"} |-> 0]
    /\ pw_pc = [v \in {"py", "jit"} |-> "idle"]

GdUnused ==
    /\ gd_X = <<>> /\ gd_y = <<>> /\ gd_gamma = 1 /\ gd_n_iter = 0 /\ gd_w0 = <<>>
    /\ g1_w = <<>> /\ g1_i = 0 /\ g1_dE = <<>> /\ g1_pc = "idle" /\ g1_updates = 0
    /\ g2_mem = <<>> /\ g2_w = <<>> /\ g2_tmp_d = <<>> /\ g2_tmp_dE = <<>>
    /\ g2_i = 0 /\ g2_pc = "idle" /\ g2_updates = 0

McUnused ==
    /\ mc_n = 1 /\ mc_tape = <<>>
    /\ mc_log = [v \in {"nojit", "jit"} |-> <<>>]
    /\ mc_acc = [v \in {"nojit", "jit"} |-> 0]
    /\ mc_i = [v \in {"nojit", "jit"} |-> 0]
    /\ mc_x = [v \in {"nojit", "jit"} |-> 0]
    /\ mc_y = [v \in {"nojit", "jit"} |-> 0]
    /\ mc_pc = [v \in {"nojit", "jit"} |-> "idle"]
    /\ mc_ret = [v \in {"nojit", "jit"} |-> NoRet]

\* a kernel in which no cell is run
NbUnused ==
    /\ nb_mode = "off" /\ nb_ns = {}
    /\ nb_last = 0 /\ nb_out = "none" /\ nb_runs = 0

InitTrapz ==
    /\ a \in Halves
    /\ b \in Halves
    /\ N \in 1..MaxPanels
    /\ ret = [v \in Variants |-> NoRet]
    /\ ApplyUnused /\ EuclidUnused /\ PairUnused /\ GdUnused /\ McUnused
    /\ NbUnused

\* trapz(f, 1, 5, 10000) and the df.apply rows: trapz(f, x.a, x.b, x.N)
CallTrapz ==
    /\ ret["trapz"] = NoRet
    /\ ret' = [ret EXCEPT !["trapz"] = trapz(a, b, N)]
    /\ UNCHANGED <<a, b, N, applyVars, euclidVars, pairVars, gdVars, mcVars, nbVars>>

\* df.apply(lambda x: trapz2(f2, x.a, x.b, x.N), axis=1)
CallTrapz2 ==
    /\ ret["trapz2"] = NoRet
    /\ ret' = [ret EXCEPT !["trapz2"] = trapz2(a, b, N)]
    /\ UNCHANGED <<a, b, N, applyVars, euclidVars, pairVars, gdVars, mcVars, nbVars>>

\* df.apply(lambda x: trapz3(f3, x.a, x.b, x.N), axis=1)
CallTrapz3 ==
    /\ ret["trapz3"] = NoRet
    /\ ret' = [ret EXCEPT !["trapz3"] = trapz3(a, b, N)]
    /\ UNCHANGED <<a, b, N, applyVars, euclidVars, pairVars, gdVars, mcVars, nbVars>>

\* df.apply(lambda x: trapz4(x.a, x.b, x.N), axis=1)
CallTrapz4 ==
    /\ ret["trapz4"] = NoRet
    /\ ret' = [ret EXCEPT !["trapz4"] = trapz4(a, b, N)]
    /\ UNCHANGED <<a, b, N, applyVars, euclidVars, pairVars, gdVars, mcVars, nbVars>>

NextTrapz == CallTrapz \/ CallTrapz2 \/ CallTrapz3 \/ CallTrapz4

SpecTrapz == InitTrapz /\ [][NextTrapz]_vars

---------------------------------------------------------------------------
(* The uniform-grid composite trapezoidal rule of the notebook's text *)

\* x_k = a + k*dx
GridPoint(pa, dx, k) == RAdd(pa, RMul(RInt(k), dx))

\* f(x_1) + ... + f(x_m)
RECURSIVE GridSum(_, _, _)
GridSum(pa, dx, m) ==
    IF m <= 0 THEN RInt(0)
    ELSE RAdd(GridSum(pa, dx, m - 1), f(GridPoint(pa, dx, m)))

\* (dx/2) * (f(x_0) + 2 f(x_1) + ... + 2 f(x_{N-1}) + f(x_N))
CompositeTrapezoid(pa, pb, pN) ==
    LET dx == RDiv(RSub(pb, pa), RInt(pN))
        ends == RAdd(f(GridPoint(pa, dx, 0)), f(GridPoint(pa, dx, pN)))
        inner == RMul(RInt(2), GridSum(pa, dx, pN - 1))
    IN  RMul(RMul(dx, Half), RAdd(ends, inner))

\* C1: for every a, b and N >= 1, trapz(f, a, b, N) returns the composite
\* trapezoidal value (dx/2)(f(x_0) + 2f(x_1) + ... + 2f(x_{N-1}) + f(x_N)):
\* end points weigh 1/2, interior points 1.
C1_TrapzIsComposite ==
    ret["trapz"] # NoRet => ret["trapz"] = CompositeTrapezoid(a, b, N)

\* C2: for every a, b and N >= 1, trapz2(f2, a, b, N), trapz3(f3, a, b, N)
\* and trapz4(a, b, N) return the value trapz(f, a, b, N) returns.
C2_VariantsAgree ==
    \A v \in Variants :
        (ret[v] # NoRet /\ ret["trapz"] # NoRet) => ret[v] = ret["trapz"]

\* all four have returned on a row with a # b and interior grid points
C2_Witness ==
    /\ \A v \in Variants : ret[v] # NoRet
    /\ a # b
    /\ N >= 2
    /\ ret["trapz4"] # RInt(0)

---------------------------------------------------------------------------
(* apply_trapz(col_a, col_b, col_n) *)

\* all sequences over S of length 0..n
RECURSIVE SeqsUpTo(_, _)
SeqsUpTo(S, n) ==
    IF n = 0 THEN {<<>>}
    ELSE LET shorter == SeqsUpTo(S, n - 1)
         IN  shorter \cup {Append(q, e) : q \in {t \in shorter : Len(t) = n - 1}, e \in S}

\* the values the columns of df hold
ColAVals == {Rat(0, 1), Rat(1, 2)}
ColBVals == {Rat(1, 1), Rat(-1, 2)}
ColNVals == {1, 2}

TrapzUnused ==
    /\ a = RInt(0) /\ b = RInt(0) /\ N = 1
    /\ ret = [v \in Variants |-> NoRet]

InitApply ==
    /\ col_a \in SeqsUpTo(ColAVals, MaxRows)
    /\ col_b \in SeqsUpTo(ColBVals, MaxRows)
    /\ col_n \in SeqsUpTo(ColNVals, MaxRows)
    /\ res = <<>>
    /\ ap_i = 0
    /\ ap_pc = "idle"
    /\ TrapzUnused /\ EuclidUnused /\ PairUnused /\ GdUnused /\ McUnused
    /\ NbUnused

\* the entry written for the loop index i (1-based here, i-1 in the code)
\* with the off-by-one slip of reading the previous row
apply_trapz_entry_prev_row(ca, cb, cn, i) ==
    LET j == IF i > 1 THEN i - 1 ELSE i
    IN  trapz4(ca[j], cb[j], cn[i])

\* res[i] = trapz4(col_a[i], col_b[i], col_n[i])
apply_trapz_entry(ca, cb, cn, i) == trapz4(ca[i], cb[i], cn[i])

\* n = len(col_n); assert(len(col_a) == len(col_b) == n); res = np.empty(n)
ApplyCall ==
    /\ ap_pc = "idle"
    /\ IF Len(col_a) = Len(col_b) /\ Len(col_b) = Len(col_n)
       THEN /\ res' = [k \in 1..Len(col_n) |-> Uninit]
            /\ ap_pc' = "loop"
       ELSE /\ res' = res
            /\ ap_pc' = "AssertionError"
    /\ ap_i' = 0
    /\ UNCHANGED <<col_a, col_b, col_n, trapzVars, euclidVars, pairVars, gdVars, mcVars, nbVars>>

\* for i in range(len(col_a)): res[i] = trapz4(...)
ApplyStep ==
    /\ ap_pc = "loop"
    /\ ap_i < Len(col_a)
    /\ res' = [res EXCEPT ![ap_i + 1] =
                   apply_trapz_entry(col_a, col_b, col_n, ap_i + 1)]
    /\ ap_i' = ap_i + 1
    /\ UNCHANGED <<col_a, col_b, col_n, ap_pc, trapzVars, euclidVars, pairVars, gdVars, mcVars, nbVars>>

\* return res
ApplyReturn ==
    /\ ap_pc = "loop"
    /\ ap_i >= Len(col_a)
    /\ ap_pc' = "done"
    /\ UNCHANGED <<col_a, col_b, col_n, res, ap_i, trapzVars, euclidVars, pairVars, gdVars, mcVars, nbVars>>

NextApply == ApplyCall \/ ApplyStep \/ ApplyReturn

SpecApply == InitApply /\ [][NextApply]_vars

\* df.apply(lambda x: trapz4(x.a, x.b, x.N), axis=1): one value per row
DfApplyTrapz4 ==
    [k \in 1..Len(col_n) |-> trapz4(col_a[k], col_b[k], col_n[k])]

---------------------------------------------------------------------------
(* euclidean (vectorised) and euclidean2 (hand-written loop) *)

\* np.sqrt / libc sqrt, rounded down to the fixed-point grid of tenths:
\* the largest r with (r/10)^2 <= d
sqrt(d) == CHOOSE r \in 0..(10 * d) : r * r <= 100 * d /\ (r + 1) * (r + 1) > 100 * d

\* x - y of two arrays, with numpy's broadcasting of a one-element array
VecSub(px, py) ==
    IF Len(px) = Len(py) THEN [k \in 1..Len(px) |-> px[k] - py[k]]
    ELSE IF Len(py) = 1 THEN [k \in 1..Len(px) |-> px[k] - py[1]]
    ELSE [k \in 1..Len(py) |-> px[1] - py[k]]

\* v ** 2, element by element
VecSquare(v) == [k \in 1..Len(v) |-> v[k] * v[k]]

\* v.sum()
RECURSIVE VecSum(_)
VecSum(v) == IF v = <<>> THEN 0 ELSE v[1] + VecSum(Tail(v))

\* whether numpy can broadcast the two shapes
Broadcastable(px, py) == Len(px) = Len(py) \/ Len(px) = 1 \/ Len(py) = 1

\* def euclidean(x, y): return np.sqrt(((x - y)**2).sum())
euclidean(px, py) == sqrt(VecSum(VecSquare(VecSub(px, py))))

\* the term of the loop with the square dropped
euclidean2_term_abs(xi, yi) == Abs(xi - yi)

\* (x[i] - y[i])**2
euclidean2_term(xi, yi) == (xi - yi) * (xi - yi)

EuVals == {0, 1, 3}
\* what a read past the end of y's buffer may find there
EuGarbage == {0, 7}

InitEuclid ==
    /\ eu_x \in SeqsUpTo(EuVals, MaxLen)
    /\ eu_y \in SeqsUpTo(EuVals, MaxLen)
    /\ eu_vpc = "idle" /\ eu_vret = 0
    /\ eu_pc = "idle" /\ eu_i = 0 /\ eu_diff = 0 /\ eu_ret = 0
    /\ TrapzUnused /\ ApplyUnused /\ PairUnused /\ GdUnused /\ McUnused
    /\ NbUnused

\* euclidean(x, y), one numpy expression
EuclideanCall ==
    /\ eu_vpc = "idle"
    /\ eu_pc \in {"idle", "done"}
    /\ IF Broadcastable(eu_x, eu_y)
       THEN eu_vret' = euclidean(eu_x, eu_y) /\ eu_vpc' = "done"
       ELSE eu_vret' = eu_vret /\ eu_vpc' = "ValueError"
    /\ UNCHANGED <<eu_x, eu_y, eu_pc, eu_i, eu_diff, eu_ret>>
    /\ UNCHANGED <<trapzVars, applyVars, pairVars, gdVars, mcVars, nbVars>>

\* euclidean2(x, y): diff = 0
Euclidean2Call ==
    /\ eu_pc = "idle"
    /\ eu_pc' = "loop"
    /\ eu_i' = 0
    /\ eu_diff' = 0
    /\ UNCHANGED <<eu_x, eu_y, eu_vpc, eu_vret, eu_ret>>
    /\ UNCHANGED <<trapzVars, applyVars, pairVars, gdVars, mcVars, nbVars>>

\* for i in range(x.shape[0]): diff += (x[i] - y[i])**2, bounds unchecked:
\* an index past y's end reads whatever lies behind the buffer
Euclidean2Step ==
    /\ eu_pc = "loop"
    /\ eu_i < Len(eu_x)
    /\ \E yi \in (IF eu_i < Len(eu_y) THEN {eu_y[eu_i + 1]} ELSE EuGarbage) :
           eu_diff' = eu_diff + euclidean2_term(eu_x[eu_i + 1], yi)
    /\ eu_i' = eu_i + 1
    /\ UNCHANGED <<eu_x, eu_y, eu_vpc, eu_vret, eu_pc, eu_ret>>
    /\ UNCHANGED <<trapzVars, applyVars, pairVars, gdVars, mcVars, nbVars>>

\* the unchecked read past y's end may also hit an unmapped page
Euclidean2Fault ==
    /\ eu_pc = "loop"
    /\ eu_i < Len(eu_x)
    /\ eu_i >= Len(eu_y)
    /\ eu_pc' = "segfault"
    /\ UNCHANGED <<eu_x, eu_y, eu_vpc, eu_vret, eu_i, eu_diff, eu_ret>>
    /\ UNCHANGED <<trapzVars, applyVars, pairVars, gdVars, mcVars, nbVars>>

\* return sqrt(diff)
Euclidean2Return ==
    /\ eu_pc = "loop"
    /\ eu_i >= Len(eu_x)
    /\ eu_ret' = sqrt(eu_diff)
    /\ eu_pc' = "done"
    /\ UNCHANGED <<eu_x, eu_y, eu_vpc, eu_vret, eu_i, eu_diff>>
    /\ UNCHANGED <<trapzVars, applyVars, pairVars, gdVars, mcVars, nbVars>>

NextEuclid ==
    \/ EuclideanCall
    \/ Euclidean2Call
    \/ Euclidean2Step
    \/ Euclidean2Fault
    \/ Euclidean2Return

SpecEuclid == InitEuclid /\ [][NextEuclid]_vars

\* the sum over i of (x[i] - y[i])^2 for arrays of one length
RECURSIVE SumSqDiff(_, _, _)
SumSqDiff(px, py, n) ==
    IF n = 0 THEN 0
    ELSE SumSqDiff(px, py, n - 1) + (px[n] - py[n]) * (px[n] - py[n])

\* C9: for two 1-D arrays of equal length, euclidean2(x, y) returns what
\* euclidean(x, y) returns, the square root of the sum over all i of
\* (x[i] - y[i])^2; the loop has accumulated that sum.
C9_Euclidean2MatchesEuclidean ==
    (eu_pc = "done" /\ eu_vpc = "done" /\ Len(eu_x) = Len(eu_y)) =>
        /\ eu_diff = SumSqDiff(eu_x, eu_y, Len(eu_x))
        /\ eu_ret = sqrt(SumSqDiff(eu_x, eu_y, Len(eu_x)))
        /\ eu_ret = eu_vret

\* both have returned on arrays of three elements that differ in two places
C9_Witness ==
    /\ eu_pc = "done" /\ eu_vpc = "done"
    /\ Len(eu_x) = 3 /\ Len(eu_y) = 3
    /\ eu_x[1] # eu_y[1] /\ eu_x[3] # eu_y[3]
    /\ eu_ret > 0

\* the values i has taken in x[i] and y[i] so far: range(x.shape[0]) up to
\* the loop's position, the faulting index included when the read trapped
euclidean2_indices ==
    IF eu_pc = "segfault" THEN 0..eu_i
    ELSE IF eu_pc \in {"loop", "done"} THEN 0..(eu_i - 1)
    ELSE {}

\* C11: euclidean2 never indexes out of bounds: for every pair of 1-D
\* arrays x and y, each index i it reads satisfies 0 <= i < len(x) and
\* 0 <= i < len(y).
C11_Euclidean2InBounds ==
    \A i \in euclidean2_indices :
        /\ 0 <= i /\ i < Len(eu_x)
        /\ 0 <= i /\ i < Len(eu_y)

---------------------------------------------------------------------------
(* pairwise_py(X) and jit_pairwise_py(X) *)

PwVariants == {"py", "jit"}
\* a cell of np.empty((M, M)) nothing has written yet (no distance is < 0)
PwUninit == -1
PwVals == {0, 3}

\* the M x N matrices over S, as sequences of rows
Matrices(S, m, n) == [1..m -> [1..n -> S]]

\* pairwise_py: for k in range(N): tmp = X[i,k] - X[j,k]; d += tmp*tmp
RECURSIVE pairwise_py_d(_, _, _, _, _, _)
pairwise_py_d(X, i, j, k, n, d) ==
    IF k >= n THEN d
    ELSE LET tmp == X[i][k + 1] - X[j][k + 1]
         IN  pairwise_py_d(X, i, j, k + 1, n, d + tmp * tmp)

\* pairwise_py: d = 0.0; the k loop; the value stored in D[i,j]
pairwise_py_cell(X, i, j) == sqrt(pairwise_py_d(X, i, j, 0, Len(X[1]), 0))

\* jit_pairwise_py: for k in range(N): tmp = X[i,k] - X[j,k]; d += tmp*tmp
RECURSIVE jit_pairwise_py_d(_, _, _, _, _, _)
jit_pairwise_py_d(X, i, j, k, n, d) ==
    IF k >= n THEN d
    ELSE LET tmp == X[i][k + 1] - X[j][k + 1]
         IN  jit_pairwise_py_d(X, i, j, k + 1, n, d + tmp * tmp)

\* the cell with the k loop stopping one column early
jit_pairwise_py_cell_short(X, i, j) ==
    sqrt(jit_pairwise_py_d(X, i, j, 0, Len(X[1]) - 1, 0))

\* jit_pairwise_py: d = 0.0; the k loop; the value stored in D[i,j]
jit_pairwise_py_cell(X, i, j) == sqrt(jit_pairwise_py_d(X, i, j, 0, Len(X[1]), 0))

PwCell(v, X, i, j) ==
    IF v = "py" THEN pairwise_py_cell(X, i, j) ELSE jit_pairwise_py_cell(X, i, j)

InitPairwise ==
    /\ \E m \in 1..MaxM, n \in 1..MaxDim : pw_X \in Matrices(PwVals, m, n)
    /\ pw_D = [v \in PwVariants |-> <<>>]
    /\ pw_i = [v \in PwVariants |-> 0]
    /\ pw_j = [v \in PwVariants |-> 0]
    /\ pw_pc = [v \in PwVariants |-> "idle"]
    /\ TrapzUnused /\ ApplyUnused /\ EuclidUnused /\ GdUnused /\ McUnused
    /\ NbUnused

\* the other function is not in the middle of a call
PwKernelFree(v) == \A u \in PwVariants \ {v} : pw_pc[u] \in {"idle", "done"}

\* M, N = X.shape; D = np.empty((M, M), dtype=np.float64)
PairwiseCall(v) ==
    /\ pw_pc[v] = "idle"
    /\ PwKernelFree(v)
    /\ pw_D' = [pw_D EXCEPT ![v] =
                   [r \in 1..Len(pw_X) |-> [c \in 1..Len(pw_X) |-> PwUninit]]]
    /\ pw_i' = [pw_i EXCEPT ![v] = 0]
    /\ pw_j' = [pw_j EXCEPT ![v] = 0]
    /\ pw_pc' = [pw_pc EXCEPT ![v] = "loop"]
    /\ UNCHANGED <<pw_X, trapzVars, applyVars, euclidVars, gdVars, mcVars, nbVars>>

\* one pass of the body of "for i in range(M): for j in range(M):",
\* ending with D[i,j] = np.sqrt(d)
PairwiseStep(v) ==
    /\ pw_pc[v] = "loop"
    /\ pw_i[v] < Len(pw_X)
    /\ pw_D' = [pw_D EXCEPT ![v][pw_i[v] + 1][pw_j[v] + 1] =
                   PwCell(v, pw_X, pw_i[v] + 1, pw_j[v] + 1)]
    /\ IF pw_j[v] + 1 < Len(pw_X)
       THEN pw_j' = [pw_j EXCEPT ![v] = pw_j[v] + 1] /\ pw_i' = pw_i
       ELSE pw_j' = [pw_j EXCEPT ![v] = 0] /\ pw_i' = [pw_i EXCEPT ![v] = pw_i[v] + 1]
    /\ UNCHANGED <<pw_X, pw_pc, trapzVars, applyVars, euclidVars, gdVars, mcVars, nbVars>>

\* return D
PairwiseReturn(v) ==
    /\ pw_pc[v] = "loop"
    /\ pw_i[v] >= Len(pw_X)
    /\ pw_pc' = [pw_pc EXCEPT ![v] = "done"]
    /\ UNCHANGED <<pw_X, pw_D, pw_i, pw_j, trapzVars, applyVars, euclidVars, gdVars, mcVars, nbVars>>

PairwisePyCall == PairwiseCall("py")
PairwisePyStep == PairwiseStep("py")
PairwisePyReturn == PairwiseReturn("py")
JitPairwisePyCall == PairwiseCall("jit")
JitPairwisePyStep == PairwiseStep("jit")
JitPairwisePyReturn == PairwiseReturn("jit")

NextPairwise ==
    \/ PairwisePyCall
    \/ PairwisePyStep
    \/ PairwisePyReturn
    \/ JitPairwisePyCall
    \/ JitPairwisePyStep
    \/ JitPairwisePyReturn

SpecPairwise == InitPairwise /\ [][NextPairwise]_vars

\* the sum over k of (X[i][k] - X[j][k])^2
RECURSIVE RowSumSqDiff(_, _, _, _)
RowSumSqDiff(X, i, j, n) ==
    IF n = 0 THEN 0
    ELSE RowSumSqDiff(X, i, j, n - 1) + (X[i][n] - X[j][n]) * (X[i][n] - X[j][n])

\* C10: for every M x N input X, jit_pairwise_py(X) returns the M x M matrix
\* pairwise_py(X) returns, in which D[i][j] is the square root of the sum
\* over k of (X[i][k] - X[j][k])^2.
C10_JitPairwiseMatches ==
    (pw_pc["py"] = "done" /\ pw_pc["jit"] = "done") =>
        /\ pw_D["jit"] = pw_D["py"]
        /\ Len(pw_D["jit"]) = Len(pw_X)
        /\ \A i \in 1..Len(pw_X) : \A j \in 1..Len(pw_X) :
               pw_D["jit"][i][j] = sqrt(RowSumSqDiff(pw_X, i, j, Len(pw_X[1])))

\* both have returned on a 2 x 2 input whose rows differ in both columns
C10_Witness ==
    /\ pw_pc["py"] = "done" /\ pw_pc["jit"] = "done"
    /\ Len(pw_X) = 2 /\ Len(pw_X[1]) = 2
    /\ pw_X[1][1] # pw_X[2][1] /\ pw_X[1][2] # pw_X[2][2]
    /\ pw_D["jit"][1][2] > 0

---------------------------------------------------------------------------
(* gradient_descent(X, y, gamma, n_iter), in numpy *)

\* a . b of two vectors of one length
RECURSIVE Dot(_, _)
Dot(u, v) == IF u = <<>> THEN 0 ELSE u[1] * v[1] + Dot(Tail(u), Tail(v))

\* np.dot(A, v): a matrix (sequence of rows) times a vector
MatVec(A, v) == [r \in 1..Len(A) |-> Dot(A[r], v)]

\* A.T
Transpose(A) == [c \in 1..Len(A[1]) |-> [r \in 1..Len(A) |-> A[r][c]]]

\* s * A, element by element
MatScale(s, A) == [r \in 1..Len(A) |-> [c \in 1..Len(A[r]) |-> s * A[r][c]]]

\* nX = np.column_stack(((np.ones(n,)), X)): the column of ones comes first
gradient_descent_nX(X) == [r \in 1..Len(X) |-> <<1>> \o X[r]]

\* the gradient with the residual taken the other way round, y - nX w
gradient_descent_dE_flipped(nX, w, y) ==
    MatVec(MatScale(2, Transpose(nX)), VecSub(y, MatVec(nX, w)))

\* dE = np.dot((2*nX.T), (np.dot(nX, w) - y))
gradient_descent_dE(nX, w, y) ==
    MatVec(MatScale(2, Transpose(nX)), VecSub(MatVec(nX, w), y))

\* w -= gamma*dE
gradient_descent_update(w, gamma, dE) == [k \in 1..Len(w) |-> w[k] - gamma * dE[k]]

---------------------------------------------------------------------------
(* gradient_descent2(X, y, gamma, n_iter), in Cython with boundscheck and  *)
(* wraparound off.  nX = np.column_stack((X, np.ones(n))) is a row-major   *)
(* n x (P+1) buffer and nXT = nX.T is a view of the same memory with the   *)
(* strides swapped; an unchecked access buf[r, c] reads or writes the cell *)
(* at r*stride0 + c*stride1 whatever the shape.  g2_mem is that buffer     *)
(* followed by the memory behind it, as far as the loops reach.            *)

\* nX = np.column_stack((X, np.ones(n))): the column of ones comes last
gradient_descent2_nX(X) == [r \in 1..Len(X) |-> X[r] \o <<1>>]

\* the cells of a matrix in row-major order
RECURSIVE Flatten(_)
Flatten(A) == IF A = <<>> THEN <<>> ELSE A[1] \o Flatten(Tail(A))

\* the cells of the n x (P+1) buffer
BufLen(n, P) == n * (P + 1)
\* one past the farthest offset the loops touch: k*(P+1) + j, k <= P, j < n
Reach(n, P) == P * (P + 1) + n
MemLen(n, P) == IF Reach(n, P) > BufLen(n, P) THEN Reach(n, P) ELSE BufLen(n, P)

\* nX[r, c], unchecked: offset r*(P+1) + c
nX_at(mem, r, c, P) == mem[r * (P + 1) + c + 1]
\* nXT[r, c], unchecked: offset r + c*(P+1)
nXT_at(mem, r, c, P) == mem[r + c * (P + 1) + 1]

\* for j in range(P): for k in range(n): nXT[k,j] *= 2.0
RECURSIVE gradient_descent2_scale(_, _, _, _, _)
gradient_descent2_scale(mem, j, k, n, P) ==
    IF j >= P THEN mem
    ELSE IF k >= n THEN gradient_descent2_scale(mem, j + 1, 0, n, P)
    ELSE LET o == k + j * (P + 1) + 1
         IN  gradient_descent2_scale([mem EXCEPT ![o] = 2 * mem[o]], j, k + 1, n, P)

\* suma = 0; for k in range(P+1): suma += (nX[k,j] * w[k])
RECURSIVE gradient_descent2_suma_d(_, _, _, _, _)
gradient_descent2_suma_d(mem, w, j, k, P) ==
    IF k >= P + 1 THEN 0
    ELSE nX_at(mem, k, j, P) * w[k + 1] + gradient_descent2_suma_d(mem, w, j, k + 1, P)

\* for j in range(n): tmp_d[j] = (suma - y[j])
gradient_descent2_tmp_d(mem, w, y, n, P) ==
    [j \in 1..n |-> gradient_descent2_suma_d(mem, w, j - 1, 0, P) - y[j]]

\* suma = 0; for k in range(n): suma += (nXT[k,j] * tmp_d[k])
RECURSIVE gradient_descent2_suma_dE(_, _, _, _, _, _)
gradient_descent2_suma_dE(mem, tmp_d, j, k, n, P) ==
    IF k >= n THEN 0
    ELSE nXT_at(mem, k, j, P) * tmp_d[k + 1]
             + gradient_descent2_suma_dE(mem, tmp_d, j, k + 1, n, P)

\* for j in range(P+1): tmp_dE[j] = suma
gradient_descent2_tmp_dE(mem, tmp_d, n, P) ==
    [j \in 1..(P + 1) |-> gradient_descent2_suma_dE(mem, tmp_d, j - 1, 0, n, P)]

\* for j in range(P+1): w[j] -= (gamma * tmp_dE[j])
gradient_descent2_update(w, gamma, tmp_dE) ==
    [k \in 1..Len(w) |-> w[k] - gamma * tmp_dE[k]]

---------------------------------------------------------------------------
(* The two gradient descents called on the same arguments *)

GdXVals == {1, 2}
GdGammas == {1, 2}
\* what np.empty and the memory behind the buffer may hold
GdGarbage == {-1, 0, 5}
\* vectors of length m: all zero, or 1, 2, .., m.  The update is linear in
\* (w, y) together, so these integers stand for any common unit of the draws
\* of np.random.rand and of y
GdVectors(m) == {[k \in 1..m |-> 0], [k \in 1..m |-> k]}

InitGD ==
    /\ \E n \in 1..MaxObs, P \in 1..MaxFeat :
          /\ gd_X \in Matrices(GdXVals, n, P)
          /\ gd_y \in GdVectors(n)
          /\ gd_w0 \in GdVectors(P + 1)
    /\ gd_gamma \in GdGammas
    /\ gd_n_iter \in 0..MaxIter
    /\ g1_w = <<>> /\ g1_i = 0 /\ g1_dE = <<>> /\ g1_pc = "idle" /\ g1_updates = 0
    /\ g2_mem = <<>> /\ g2_w = <<>> /\ g2_tmp_d = <<>> /\ g2_tmp_dE = <<>>
    /\ g2_i = 0 /\ g2_pc = "idle" /\ g2_updates = 0
    /\ TrapzUnused /\ ApplyUnused /\ EuclidUnused /\ PairUnused /\ McUnused
    /\ NbUnused

GdN == Len(gd_X)
GdP == Len(gd_X[1])
gdOthers == <<trapzVars, applyVars, euclidVars, pairVars, mcVars, nbVars>>

\* n, P = X.shape; nX = ...; w = np.random.rand(P+1); range(1, n_iter) starts
GradientDescentCall ==
    /\ g1_pc = "idle"
    /\ g2_pc \in {"idle", "done"}
    /\ g1_w' = gd_w0
    /\ g1_i' = 1
    /\ g1_pc' = "loop"
    /\ UNCHANGED <<g1_dE, g1_updates, gdArgs, gd2Vars, gdOthers>>

\* one pass of "for i in range(1, n_iter)": dE = ...; w -= gamma*dE
GradientDescentStep ==
    /\ g1_pc = "loop"
    /\ g1_i < gd_n_iter
    /\ g1_dE' = gradient_descent_dE(gradient_descent_nX(gd_X), g1_w, gd_y)
    /\ g1_w' = gradient_descent_update(g1_w, gd_gamma, g1_dE')
    /\ g1_i' = g1_i + 1
    /\ g1_updates' = g1_updates + 1
    /\ UNCHANGED <<g1_pc, gdArgs, gd2Vars, gdOthers>>

\* return w
GradientDescentReturn ==
    /\ g1_pc = "loop"
    /\ g1_i >= gd_n_iter
    /\ g1_pc' = "done"
    /\ UNCHANGED <<g1_w, g1_i, g1_dE, g1_updates, gdArgs, gd2Vars, gdOthers>>

\* the declarations of gradient_descent2: nX, w, nXT = nX.T, tmp_d, tmp_dE
GradientDescent2Call ==
    /\ g2_pc = "idle"
    /\ g1_pc \in {"idle", "done"}
    /\ \E g \in GdGarbage :
          /\ g2_mem' = Flatten(gradient_descent2_nX(gd_X))
                          \o [k \in 1..(MemLen(GdN, GdP) - BufLen(GdN, GdP)) |-> g]
          /\ g2_tmp_d' = [k \in 1..GdN |-> g]
          /\ g2_tmp_dE' = [k \in 1..(GdP + 1) |-> g]
    /\ g2_w' = gd_w0
    /\ g2_i' = 0
    /\ g2_pc' = "scale"
    /\ UNCHANGED <<g2_updates, gdArgs, gd1Vars, gdOthers>>

\* the loop that doubles nXT[k,j], j < P, k < n
GradientDescent2Scale ==
    /\ g2_pc = "scale"
    /\ g2_mem' = gradient_descent2_scale(g2_mem, 0, 0, GdN, GdP)
    /\ g2_pc' = "loop"
    /\ UNCHANGED <<g2_w, g2_tmp_d, g2_tmp_dE, g2_i, g2_updates>>
    /\ UNCHANGED <<gdArgs, gd1Vars, gdOthers>>

\* one pass of "for i in range(n_iter)": tmp_d, tmp_dE, then w
GradientDescent2Step ==
    /\ g2_pc = "loop"
    /\ g2_i < gd_n_iter
    /\ g2_tmp_d' = gradient_descent2_tmp_d(g2_mem, g2_w, gd_y, GdN, GdP)
    /\ g2_tmp_dE' = gradient_descent2_tmp_dE(g2_mem, g2_tmp_d', GdN, GdP)
    /\ g2_w' = gradient_descent2_update(g2_w, gd_gamma, g2_tmp_dE')
    /\ g2_i' = g2_i + 1
    /\ g2_updates' = g2_updates + 1
    /\ UNCHANGED <<g2_mem, g2_pc, gdArgs, gd1Vars, gdOthers>>

\* an unchecked access behind the buffer may hit an unmapped page instead
GradientDescent2Fault ==
    /\ \/ g2_pc = "scale" /\ (GdP - 1) * (GdP + 1) + GdN > BufLen(GdN, GdP)
       \/ g2_pc = "loop" /\ g2_i < gd_n_iter /\ Reach(GdN, GdP) > BufLen(GdN, GdP)
    /\ g2_pc' = "segfault"
    /\ UNCHANGED <<g2_mem, g2_w, g2_tmp_d, g2_tmp_dE, g2_i, g2_updates>>
    /\ UNCHANGED <<gdArgs, gd1Vars, gdOthers>>

\* return w
GradientDescent2Return ==
    /\ g2_pc = "loop"
    /\ g2_i >= gd_n_iter
    /\ g2_pc' = "done"
    /\ UNCHANGED <<g2_mem, g2_w, g2_tmp_d, g2_tmp_dE, g2_i, g2_updates>>
    /\ UNCHANGED <<gdArgs, gd1Vars, gdOthers>>

NextGD ==
    \/ GradientDescentCall
    \/ GradientDescentStep
    \/ GradientDescentReturn
    \/ GradientDescent2Call
    \/ GradientDescent2Scale
    \/ GradientDescent2Step
    \/ GradientDescent2Fault
    \/ GradientDescent2Return

SpecGD == InitGD /\ [][NextGD]_vars

\* the sum over r = 1..m of A[r][c] * v[r]
RECURSIVE ColumnDot(_, _, _, _)
ColumnDot(A, c, v, m) ==
    IF m = 0 THEN 0 ELSE ColumnDot(A, c, v, m - 1) + A[m][c] * v[m]

\* the sum over k = 1..m of A[r][k] * w[k]
RECURSIVE RowDot(_, _, _, _)
RowDot(A, r, w, m) ==
    IF m = 0 THEN 0 ELSE RowDot(A, r, w, m - 1) + A[r][m] * w[m]

\* 2 X^T (X w - y), component by component
GradXwMinusY(A, w, y) ==
    [c \in 1..Len(A[1]) |->
        2 * ColumnDot(A, c, [r \in 1..Len(A) |-> RowDot(A, r, w, Len(w)) - y[r]], Len(A))]

\* 2 X^T (y - X w), component by component
GradYMinusXw(A, w, y) ==
    [c \in 1..Len(A[1]) |->
        2 * ColumnDot(A, c, [r \in 1..Len(A) |-> y[r] - RowDot(A, r, w, Len(w))], Len(A))]

\* a pass of the loop of gradient_descent has just run
GdPassTaken == g1_pc = "loop" /\ g1_updates' = g1_updates + 1

C4_UpdatesEqualNIter ==
    /\ g1_pc = "done" => g1_updates = gd_n_iter
    /\ g2_pc = "done" => g2_updates = gd_n_iter

\* C5: started from the same initial weights and given the same X, y, gamma
\* and n_iter, gradient_descent2 and gradient_descent return the same weight
\* vector, each weight in the same position.  Stated on the shapes on which
\* every access of gradient_descent2 stays inside its buffer (n >= P+1), so
\* that no content of foreign memory takes part in a violation.
C5_SameWeights ==
    (g1_pc = "done" /\ g2_pc = "done" /\ Reach(GdN, GdP) <= BufLen(GdN, GdP)) =>
        g2_w = g1_w

\* the element accesses of the scaling loop, as <<array, first index, second
\* index>> (0 for the second index of a 1-D array):
\* for j in range(P): for k in range(n): nXT[k,j] *= 2.0
gradient_descent2_scale_accesses(n, P) ==
    {<<"nXT", k, j>> : k \in 0..(n - 1), j \in 0..(P - 1)}

\* the element accesses of one pass of the iteration loop:
\* nX[k,j] * w[k] and tmp_d[j] = suma - y[j], j in range(n), k in range(P+1);
\* nXT[k,j] * tmp_d[k] and tmp_dE[j] = suma, j in range(P+1), k in range(n);
\* w[j] -= gamma * tmp_dE[j], j in range(P+1)
gradient_descent2_pass_accesses(n, P) ==
    {<<"nX", k, j>> : k \in 0..P, j \in 0..(n - 1)}
        \cup {<<"w", k, 0>> : k \in 0..P}
        \cup {<<"tmp_d", j, 0>> : j \in 0..(n - 1)}
        \cup {<<"y", j, 0>> : j \in 0..(n - 1)}
        \cup {<<"nXT", k, j>> : k \in 0..(n - 1), j \in 0..P}
        \cup {<<"tmp_dE", j, 0>> : j \in 0..P}

\* the shapes of the arrays gradient_descent2 works on: nX is
\* np.column_stack((X, np.ones(n))), nXT = nX.T, w = np.random.rand(P+1),
\* tmp_d = np.empty(n), tmp_dE = np.empty(P+1), y as passed in
gradient_descent2_shape(arr, n, P) ==
    CASE arr = "nX" -> <<n, P + 1>>
      [] arr = "nXT" -> <<P + 1, n>>
      [] arr = "w" -> <<P + 1, 1>>
      [] arr = "y" -> <<Len(gd_y), 1>>
      [] arr = "tmp_d" -> <<n, 1>>
      [] arr = "tmp_dE" -> <<P + 1, 1>>

\* the accesses gradient_descent2 has made once the scaling loop, and then
\* a pass of the iteration loop, has run
gradient_descent2_accessed ==
    IF g2_pc \in {"loop", "done"}
    THEN gradient_descent2_scale_accesses(GdN, GdP)
             \cup (IF g2_i > 0 THEN gradient_descent2_pass_accesses(GdN, GdP)
                   ELSE {})
    ELSE {}

\* C13: gradient_descent2 only accesses array elements that exist: for every
\* n >= 1 and P >= 1, each access nX[r,c], nXT[r,c], w[k], y[j], tmp_d[k] and
\* tmp_dE[j] of the scaling loop and of the iteration loop has its indices
\* inside the shape of that array (nX is n x (P+1), nXT is (P+1) x n).
C13_AccessesInShape ==
    \A acc \in gradient_descent2_accessed :
        LET shape == gradient_descent2_shape(acc[1], GdN, GdP)
        IN  /\ 0 <= acc[2] /\ acc[2] < shape[1]
            /\ 0 <= acc[3] /\ acc[3] < shape[2]

---------------------------------------------------------------------------
(* monte_carlo_pi_nojit(n_samples) and monte_carlo_pi_jit(n_samples).      *)
(* A draw of random() is a number of tenths, 0 <= d < 10, so that 1. is 10 *)
(* and x**2 + y**2 < 1. compares x*x + y*y with 10*10.                     *)

McVariants == {"nojit", "jit"}
\* the draws: 0.0, 0.6, 0.8 (0.6 and 0.8 lie on the circle: 0.36 + 0.64 = 1)
McDraws == {0, 6, 8}

\* the sequences over S of length exactly n
SeqsOfLen(S, n) == {q \in SeqsUpTo(S, n) : Len(q) = n}

\* the test with the circle itself counted as inside
monte_carlo_pi_nojit_hit_closed(x, y) == x * x + y * y <= 10 * 10

\* monte_carlo_pi_nojit: if (x**2 + y**2) < 1.:
monte_carlo_pi_nojit_hit(x, y) == x * x + y * y < 10 * 10

\* the jit test with the circle itself counted as inside
monte_carlo_pi_jit_hit_closed(x, y) == x * x + y * y <= 10 * 10

\* monte_carlo_pi_jit: if (x**2 + y**2) < 1.:
monte_carlo_pi_jit_hit(x, y) == x * x + y * y < 10 * 10

McHit(v, x, y) ==
    IF v = "nojit" THEN monte_carlo_pi_nojit_hit(x, y) ELSE monte_carlo_pi_jit_hit(x, y)

\* return 4. * acc / n_samples
monte_carlo_pi_nojit_ret(acc, n) == RDiv(RMul(RInt(4), RInt(acc)), RInt(n))
monte_carlo_pi_jit_ret(acc, n) == RDiv(RMul(RInt(4), RInt(acc)), RInt(n))

McRet(v, acc, n) ==
    IF v = "nojit" THEN monte_carlo_pi_nojit_ret(acc, n) ELSE monte_carlo_pi_jit_ret(acc, n)

InitMC ==
    /\ mc_n \in 1..MaxSamples
    /\ mc_tape \in SeqsOfLen(McDraws, 2 * mc_n)
    /\ mc_log = [v \in McVariants |-> <<>>]
    /\ mc_acc = [v \in McVariants |-> 0]
    /\ mc_i = [v \in McVariants |-> 0]
    /\ mc_x = [v \in McVariants |-> 0]
    /\ mc_y = [v \in McVariants |-> 0]
    /\ mc_pc = [v \in McVariants |-> "idle"]
    /\ mc_ret = [v \in McVariants |-> NoRet]
    /\ TrapzUnused /\ ApplyUnused /\ EuclidUnused /\ PairUnused /\ GdUnused
    /\ NbUnused

mcOthers == <<trapzVars, applyVars, euclidVars, pairVars, gdVars, nbVars>>

\* acc = 0, with the generator of the function at the start of the draws
MonteCarloCall(v) ==
    /\ mc_pc[v] = "idle"
    /\ \A u \in McVariants \ {v} : mc_pc[u] \in {"idle", "done"}
    /\ mc_acc' = [mc_acc EXCEPT ![v] = 0]
    /\ mc_i' = [mc_i EXCEPT ![v] = 0]
    /\ mc_pc' = [mc_pc EXCEPT ![v] = "loop"]
    /\ UNCHANGED <<mc_n, mc_tape, mc_log, mc_x, mc_y, mc_ret, mcOthers>>

\* one pass of "for i in range(n_samples)": x = random(); y = random();
\* if (x**2 + y**2) < 1.: acc += 1
MonteCarloStep(v) ==
    /\ mc_pc[v] = "loop"
    /\ mc_i[v] < mc_n
    /\ LET x == mc_tape[Len(mc_log[v]) + 1]
           y == mc_tape[Len(mc_log[v]) + 2]
       IN  /\ mc_x' = [mc_x EXCEPT ![v] = x]
           /\ mc_y' = [mc_y EXCEPT ![v] = y]
           /\ mc_log' = [mc_log EXCEPT ![v] = Append(Append(mc_log[v], x), y)]
           /\ mc_acc' = [mc_acc EXCEPT ![v] =
                             IF McHit(v, x, y) THEN mc_acc[v] + 1 ELSE mc_acc[v]]
    /\ mc_i' = [mc_i EXCEPT ![v] = mc_i[v] + 1]
    /\ UNCHANGED <<mc_n, mc_tape, mc_pc, mc_ret, mcOthers>>

\* return 4. * acc / n_samples
MonteCarloReturn(v) ==
    /\ mc_pc[v] = "loop"
    /\ mc_i[v] >= mc_n
    /\ mc_ret' = [mc_ret EXCEPT ![v] = McRet(v, mc_acc[v], mc_n)]
    /\ mc_pc' = [mc_pc EXCEPT ![v] = "done"]
    /\ UNCHANGED <<mc_n, mc_tape, mc_log, mc_acc, mc_i, mc_x, mc_y, mcOthers>>

NextMC ==
    \/ MonteCarloCall("nojit")
    \/ MonteCarloStep("nojit")
    \/ MonteCarloReturn("nojit")
    \/ MonteCarloCall("jit")
    \/ MonteCarloStep("jit")
    \/ MonteCarloReturn("jit")

SpecMC == InitMC /\ [][NextMC]_vars

\* the sample pairs (draws 2k-1 and 2k) strictly inside the unit circle
PairsInside == {k \in 1..mc_n : mc_tape[2 * k - 1] * mc_tape[2 * k - 1]
                                    + mc_tape[2 * k] * mc_tape[2 * k] < 100}

\* C7: for n >= 1, monte_carlo_pi_nojit(n) draws x then y in each of exactly
\* n iterations, increments acc exactly when x^2 + y^2 < 1, and returns
\* 4*acc/n with acc the number of such pairs.
C7_NoJitCountsStrictlyInside ==
    /\ mc_pc["nojit"] = "loop" =>
          /\ mc_log["nojit"] = SubSeq(mc_tape, 1, 2 * mc_i["nojit"])
          /\ mc_i["nojit"] >= 1 =>
                /\ mc_x["nojit"] = mc_tape[2 * mc_i["nojit"] - 1]
                /\ mc_y["nojit"] = mc_tape[2 * mc_i["nojit"]]
    /\ mc_pc["nojit"] = "done" =>
          /\ mc_i["nojit"] = mc_n
          /\ mc_log["nojit"] = mc_tape
          /\ mc_acc["nojit"] = Cardinality(PairsInside)
          /\ mc_ret["nojit"] = Rat(4 * Cardinality(PairsInside), mc_n)

\* nojit has returned after a pair on the circle, which it did not count,
\* and a pair inside, which it did
C7_Witness ==
    /\ mc_pc["nojit"] = "done"
    /\ mc_n = 2
    /\ mc_tape = <<6, 8, 6, 0>>
    /\ mc_ret["nojit"] = RInt(2)

\* C8: fed the same sequence of draws and the same n_samples,
\* monte_carlo_pi_jit and monte_carlo_pi_nojit consume the draws in the same
\* order and return the same value.
C8_JitMatchesNoJit ==
    (mc_pc["jit"] = "done" /\ mc_pc["nojit"] = "done") =>
        /\ mc_log["jit"] = mc_log["nojit"]
        /\ mc_ret["jit"] = mc_ret["nojit"]

\* both have returned on draws that hold a pair on the circle
C8_Witness ==
    /\ mc_pc["jit"] = "done" /\ mc_pc["nojit"] = "done"
    /\ mc_n = 2
    /\ mc_tape = <<8, 6, 0, 6>>
    /\ mc_ret["jit"] = RInt(2)

---------------------------------------------------------------------------
(* The code cells of the notebook, run by the kernel *)

\* an interactive session runs at most MaxRuns cells
MaxRuns == 3

\* one statement of a cell: the global names it reads when it executes and
\* the global names it binds.  A def binds its name and reads nothing until
\* it is called; a decorator is read when the def executes; the body of a
\* %timeit or %%timeit statement binds nothing in the user namespace; a
\* %%cython cell is one statement that needs the Cython extension loaded
\* and binds the public names of the compiled module.
Stmt(reads, binds) == [reads |-> reads, binds |-> binds]

\* import time, numpy as np, pandas as pd, sympy; %load_ext Cython; but
\* from numba import jit left out
ImportCell_without_jit ==
    <<Stmt({}, {"time"}), Stmt({}, {"np"}), Stmt({}, {"pd"}),
      Stmt({}, {"sympy"}), Stmt({}, {"cython_magic"})>>

\* cell 1: import time, numpy as np, pandas as pd, sympy; %load_ext Cython;
\* from numba import jit
ImportCell ==
    <<Stmt({}, {"time"}), Stmt({}, {"np"}), Stmt({}, {"pd"}),
      Stmt({}, {"sympy"}), Stmt({}, {"cython_magic"}), Stmt({}, {"jit"})>>

\* cells 2..11: timing, trapz in Python, sympy's integral, calculate_y
CellsTiming == <<
    \* 2: time.time()
    <<Stmt({"time"}, {})>>,
    \* 3: t0 = time.time(); np.dot(...); print(time.time() - t0)
    <<Stmt({"time"}, {"t0"}), Stmt({"np"}, {}), Stmt({"time", "t0"}, {})>>,
    \* 4: def f(x); def trapz(f, a, b, N)
    <<Stmt({}, {"f"}), Stmt({}, {"trapz"})>>,
    \* 5: trapz(f, 1, 5, 10000)
    <<Stmt({"trapz", "f"}, {})>>,
    \* 6: xs = sympy.symbols("xs"); fx = ...; ifx = sympy.integrate(...);
    \*    ifx.evalf()
    <<Stmt({"sympy"}, {"xs"}), Stmt({"xs"}, {"fx"}),
      Stmt({"sympy", "fx", "xs"}, {"ifx"}), Stmt({"ifx"}, {})>>,
    \* 7: %timeit trapz(f, 1, 5, 10000)
    <<Stmt({"trapz", "f"}, {})>>,
    \* 8: %prun trapz(f, 1, 5, 100000)
    <<Stmt({"trapz", "f"}, {})>>,
    \* 9: def calculate_y(x)
    <<Stmt({}, {"calculate_y"})>>,
    \* 10: %%timeit calcs = []; for x in range(10000): calcs.append(...)
    <<Stmt({"calculate_y"}, {})>>,
    \* 11: %timeit calcs = [calculate_y(x) for x in range(10000)]
    <<Stmt({"calculate_y"}, {})>> >>

\* cells 12..21: pandas eval
CellsPandas == <<
    \* 12: import pandas as pd; x1, x2, x3 = [pd.DataFrame(np.random...)];
    \*     x1.head(1)
    <<Stmt({}, {"pd"}), Stmt({"pd", "np"}, {"x1", "x2", "x3"}),
      Stmt({"x1"}, {})>>,
    \* 13: %timeit x1 + x2 + x3
    <<Stmt({"x1", "x2", "x3"}, {})>>,
    \* 14: %timeit pd.eval("x1 + x2 + x3")
    <<Stmt({"pd", "x1", "x2", "x3"}, {})>>,
    \* 15: %timeit (x1 < x2) & (x2 > x3)
    <<Stmt({"x1", "x2", "x3"}, {})>>,
    \* 16: %timeit pd.eval("(x1 < x2) & (x2 > x3)")
    <<Stmt({"pd", "x1", "x2", "x3"}, {})>>,
    \* 17: dfx = pd.DataFrame(np.random.randn(1000000,2), ...)
    <<Stmt({"pd", "np"}, {"dfx"})>>,
    \* 18: %timeit dfx.x*1.5 + ...
    <<Stmt({"dfx"}, {})>>,
    \* 19: %timeit dfx.eval("1.5*x + ...")
    <<Stmt({"dfx"}, {})>>,
    \* 20: dfx.eval("z = x<0.5", inplace=True); dfx.head()
    <<Stmt({"dfx"}, {}), Stmt({"dfx"}, {})>>,
    \* 21: cs = 0.007; dfx.eval("x * @cs").head()
    <<Stmt({}, {"cs"}), Stmt({"dfx", "cs"}, {})>> >>

\* cells 22..36: trapz applied to the rows of df, in Python and in Cython
CellsCython == <<
    \* 22: def trapz(f, a, b, N)
    <<Stmt({}, {"trapz"})>>,
    \* 23: df = pd.DataFrame({'a': np.random.randn(10000), ...})
    <<Stmt({"pd", "np"}, {"df"})>>,
    \* 24: %timeit df.apply(lambda x: trapz(f, x.a, x.b, x.N), axis=1)
    <<Stmt({"df", "trapz", "f"}, {})>>,
    \* 25: %prun -l 4 df.apply(lambda x: trapz(f, x.a, x.b, x.N), axis=1)
    <<Stmt({"df", "trapz", "f"}, {})>>,
    \* 26: %load_ext Cython
    <<Stmt({}, {"cython_magic"})>>,
    \* 27: %%cython def f2(x); def trapz2(f, a, b, N)
    <<Stmt({"cython_magic"}, {"f2", "trapz2"})>>,
    \* 28: %timeit df.apply(lambda x: trapz2(f2, x.a, x.b, x.N), axis=1)
    <<Stmt({"df", "trapz2", "f2"}, {})>>,
    \* 29: %%cython --annotate def f2(x); def trapz2(f, a, b, N)
    <<Stmt({"cython_magic"}, {"f2", "trapz2"})>>,
    \* 30: %%cython --annotate def f3(double x); def trapz3(...)
    <<Stmt({"cython_magic"}, {"f3", "trapz3"})>>,
    \* 31: %timeit df.apply(lambda x: trapz3(f3, x.a, x.b, x.N), axis=1)
    <<Stmt({"df", "trapz3", "f3"}, {})>>,
    \* 32: %%cython --annotate import cython; cdef inline f4; cpdef trapz4
    <<Stmt({"cython_magic"}, {"cython", "trapz4"})>>,
    \* 33: %timeit df.apply(lambda x: trapz4(x.a, x.b, x.N), axis=1)
    <<Stmt({"df", "trapz4"}, {})>>,
    \* 34: %prun -l 4 df.apply(lambda x: trapz4(x.a, x.b, x.N), axis=1)
    <<Stmt({"df", "trapz4"}, {})>>,
    \* 35: %%cython --annotate import numpy as np; import cython;
    \*     cdef inline f4; cpdef trapz4; cpdef apply_trapz
    <<Stmt({"cython_magic"}, {"np", "cython", "trapz4", "apply_trapz"})>>,
    \* 36: %timeit apply_trapz(df.a.values, df.b.values, df.N.values)
    <<Stmt({"apply_trapz", "df"}, {})>> >>

\* cells 37..44: the euclidean and the pairwise distances
CellsDistances == <<
    \* 37: def euclidean(x, y)
    <<Stmt({}, {"euclidean"})>>,
    \* 38: %timeit euclidean(np.random.randn(1000), np.random.randn(1000))
    <<Stmt({"euclidean", "np"}, {})>>,
    \* 39: %%cython --annotate import cython; cpdef double euclidean2(...)
    <<Stmt({"cython_magic"}, {"cython", "euclidean2"})>>,
    \* 40: %timeit euclidean2(np.random.randn(1000), np.random.randn(1000))
    <<Stmt({"euclidean2", "np"}, {})>>,
    \* 41: def pairwise_py(X)
    <<Stmt({}, {"pairwise_py"})>>,
    \* 42: %timeit pairwise_py(np.random.rand(1000, 3))
    <<Stmt({"pairwise_py", "np"}, {})>>,
    \* 43: @jit def jit_pairwise_py(X)
    <<Stmt({"jit"}, {"jit_pairwise_py"})>>,
    \* 44: %timeit jit_pairwise_py(np.random.rand(1000, 3))
    <<Stmt({"jit_pairwise_py", "np"}, {})>> >>

\* cells 45..48: gradient descent
CellsGradient == <<
    \* 45: def gradient_descent(X, y, gamma = 1., n_iter = 10**3)
    <<Stmt({}, {"gradient_descent"})>>,
    \* 46: X = np.random.normal(...); y = np.random.randn(10000);
    \*     %timeit gradient_descent(X, y, n_iter=300)
    <<Stmt({"np"}, {"X"}), Stmt({"np"}, {"y"}),
      Stmt({"gradient_descent", "X", "y", "np"}, {})>>,
    \* 47: %%cython --annotate import cython; import numpy as np;
    \*     cpdef gradient_descent2(...)
    <<Stmt({"cython_magic"}, {"cython", "np", "gradient_descent2"})>>,
    \* 48: X = np.random.normal(...); y = np.random.randn(10000);
    \*     %timeit gradient_descent2(X, y, n_iter=300)
    <<Stmt({"np"}, {"X"}), Stmt({"np"}, {"y"}),
      Stmt({"gradient_descent2", "X", "y"}, {})>> >>

\* cells 49..51: the Monte-Carlo estimate of pi
CellsMonteCarlo == <<
    \* 49: from random import random; def monte_carlo_pi_nojit(n_samples);
    \*     @jit(nopython=True) def monte_carlo_pi_jit(n_samples)
    <<Stmt({}, {"random"}), Stmt({}, {"monte_carlo_pi_nojit"}),
      Stmt({"jit"}, {"monte_carlo_pi_jit"})>>,
    \* 50: %timeit monte_carlo_pi_nojit(1000000)
    <<Stmt({"monte_carlo_pi_nojit", "random"}, {})>>,
    \* 51: %timeit monte_carlo_pi_jit(1000000)
    <<Stmt({"monte_carlo_pi_jit", "random"}, {})>> >>

\* the code cells of the notebook from top to bottom
Notebook ==
    <<ImportCell>> \o CellsTiming \o CellsPandas \o CellsCython
        \o CellsDistances \o CellsGradient \o CellsMonteCarlo

CellIds == 1..Len(Notebook)

\* how the kernel reports the names a statement could not find: a missing
\* cell magic is a UsageError, a missing variable a NameError
StmtError(missing) ==
    IF "cython_magic" \in missing THEN "UsageError" ELSE "NameError"

\* a cell whose statements would all be looked up in the namespace the cell
\* started with, seeing none of the cell's own bindings
run_cell_no_own_bindings(stmts, ns) ==
    LET reads == UNION {stmts[k].reads : k \in DOMAIN stmts}
        binds == UNION {stmts[k].binds : k \in DOMAIN stmts}
    IN  IF reads \subseteq ns
        THEN [ns |-> ns \cup binds, out |-> "ok"]
        ELSE [ns |-> ns, out |-> StmtError(reads \ ns)]

\* the kernel runs the statements of a cell in order against the user
\* namespace ns; the first statement that reads an unbound name stops the
\* cell, and what the statements before it bound stays bound
RECURSIVE run_cell(_, _)
run_cell(stmts, ns) ==
    IF stmts = <<>> THEN [ns |-> ns, out |-> "ok"]
    ELSE LET s == Head(stmts)
         IN  IF s.reads \subseteq ns
             THEN run_cell(Tail(stmts), ns \cup s.binds)
             ELSE [ns |-> ns, out |-> StmtError(s.reads \ ns)]

\* a fresh kernel, whose cells are run one at a time in any order
\* ("interactive") or all from top to bottom ("run_all")
InitNotebook ==
    /\ nb_mode \in {"interactive", "run_all"}
    /\ nb_ns = {}
    /\ nb_last = 0 /\ nb_out = "none" /\ nb_runs = 0
    /\ TrapzUnused /\ ApplyUnused /\ EuclidUnused /\ PairUnused
    /\ GdUnused /\ McUnused

nbOthers == <<trapzVars, applyVars, euclidVars, pairVars, gdVars, mcVars>>

\* the kernel executes cell c
Execute(c) ==
    LET r == run_cell(Notebook[c], nb_ns)
    IN  /\ nb_ns' = r.ns
        /\ nb_out' = r.out
        /\ nb_last' = c
        /\ nb_runs' = nb_runs + 1
        /\ UNCHANGED <<nb_mode, nbOthers>>

\* the user runs one cell of their choice
RunCell(c) ==
    /\ nb_mode = "interactive"
    /\ nb_runs < MaxRuns
    /\ Execute(c)

\* Run All: the next cell down, until a cell stops with an error
RunAllNext ==
    /\ nb_mode = "run_all"
    /\ nb_out \in {"none", "ok"}
    /\ nb_last < Len(Notebook)
    /\ Execute(nb_last + 1)

NextNotebook ==
    \/ \E c \in CellIds : RunCell(c)
    \/ RunAllNext

SpecNotebook == InitNotebook /\ [][NextNotebook]_vars

\* how cell c ends in a kernel that has run nothing
FreshOutcome(c) == run_cell(Notebook[c], {}).out

\* the names a cell reads before any statement of its own has bound them
FreeNames(stmts) ==
    UNION {stmts[k].reads \ UNION {stmts[j].binds : j \in 1..(k - 1)} :
               k \in DOMAIN stmts}

C14_RunAllFindsEveryName ==
    (nb_mode = "run_all" /\ nb_last # 0) =>
        /\ nb_out = "ok"
        /\ nb_runs = nb_last
        /\ \A c \in 1..nb_last : FreeNames(Notebook[c]) \subseteq nb_ns

\* Run All has reached the bottom: the last cell,
\* %timeit monte_carlo_pi_jit(1000000), has run to its end
C14_Witness ==
    /\ nb_mode = "run_all"
    /\ nb_last = Len(Notebook) /\ nb_out = "ok"
    /\ {"df", "apply_trapz", "monte_carlo_pi_jit"} \subseteq nb_ns

====
